---- MODULE Spec2Model ----
(***************************************************************************)
(* A model of the PowerOn repository: the PowerManager facade              *)
(* (src/app/power_manager.py) and the stand-alone scripts poweroff.py,     *)
(* poweroffbymail.py, poweroffdelaybymail.py and poweronbymail.py.         *)
(*                                                                         *)
(* Text is modelled as a sequence of characters.  The characters "0".."9", *)
(* ",", ":", " " and "\t" are what the code parses and formats; any other  *)
(* element of a text ("poweroff.py", "python3", "*") stands for an opaque  *)
(* run of characters that the code only compares or copies.                *)
(*                                                                         *)
(* Environment: files that exist can be opened, read and written, and the  *)
(* mail, push and shell transports return normally.  The except-branches   *)
(* for IOError on an existing file are therefore not taken.                *)
(* The state file /config/poweron.json, when it exists, holds a JSON       *)
(* object of strings, as the code writes it.                               *)
(***************************************************************************)
EXTENDS Integers, Sequences, FiniteSets, TLC

VARIABLES
    enabled,      \* GeneralSettings.enabled
    dry_run,      \* GeneralSettings.dry_run
    verbose_logging, \* GeneralSettings.verbose_logging
    extend_settings, \* ExtendSettings of the configuration
    power_off_settings, \* PowerOffSettings of the configuration
    node,         \* NodeSettings: what is configured for the primary node
    cron,         \* the file /etc/crontabs/root
    pc,           \* "idle", or "scan" while a run iterates over the mailbox
    op,           \* the operation that ran last or is running
    ret,          \* what the last schedule function returned
    raised,       \* whether the last operation ended with an exception
    last,         \* what the last operation, or the last message of the
                  \* running scan, caused
    allowed_senders, \* ALLOWED_SENDERS of the POWERON section, split
    allowed_credits, \* ALLOWED_CREDITS of the POWERON section, split
    credits,      \* POBE.credits of poweronbymail.py during a run
    state_file,   \* the file /config/poweron.json
    now,          \* the clock: datetime.today()
    shutdowntime, \* POD.shutdowntime of poweroffdelaybymail.py
    fetched,      \* the number of messages the running script has fetched
    runs          \* two PowerManager processes on one schedule file: where
                  \* each stands and the lines it has read

vars == <<enabled, dry_run, verbose_logging, extend_settings,
          power_off_settings, node, cron, pc, op, ret, raised, last,
          allowed_senders, allowed_credits, credits, state_file, now,
          shutdowntime, fetched, runs>>

\* the configuration, which no operation changes
Config ==
    <<enabled, dry_run, verbose_logging, extend_settings,
      power_off_settings, node, allowed_senders, allowed_credits>>

\* the state that only the stand-alone scripts and the credit ledger use
ScriptState == <<credits, state_file, now, shutdowntime, fetched>>

\* Python's None where a text is expected
None == <<"None">>

----------------------------------------------------------------------------
(* Bounds *)

\* largest EXTEND_TIME_IN_HOURS that is configured
MaxExtendHours == 24

----------------------------------------------------------------------------
(* Text: str.split, str.zfill, int(), str() and str.join *)

Digits == <<"0", "1", "2", "3", "4", "5", "6", "7", "8", "9">>

DigitSet == {Digits[i] : i \in 1..10}

Whitespace == {" ", "\t"}

DigitVal(c) == CHOOSE d \in 0..9 : Digits[d + 1] = c

\* int(text) raises ValueError unless the text is a run of decimal digits
IsIntText(t) == Len(t) > 0 /\ \A i \in 1..Len(t) : t[i] \in DigitSet

RECURSIVE ParseInt(_)
ParseInt(t) ==
    IF Len(t) = 0 THEN 0
    ELSE 10 * ParseInt(SubSeq(t, 1, Len(t) - 1)) + DigitVal(t[Len(t)])

RECURSIVE Str(_)
Str(n) ==
    IF n < 10 THEN <<Digits[n + 1]>>
    ELSE Append(Str(n \div 10), Digits[(n % 10) + 1])

\* str.zfill(2)
RECURSIVE Zfill2(_)
Zfill2(t) == IF Len(t) >= 2 THEN t ELSE Zfill2(<<"0">> \o t)

\* str.split() without arguments: split on runs of whitespace
RECURSIVE SplitWsFrom(_, _, _, _)
SplitWsFrom(t, i, cur, acc) ==
    IF i > Len(t)
    THEN IF cur = <<>> THEN acc ELSE Append(acc, cur)
    ELSE IF t[i] \in Whitespace
         THEN SplitWsFrom(t, i + 1, <<>>,
                          IF cur = <<>> THEN acc ELSE Append(acc, cur))
         ELSE SplitWsFrom(t, i + 1, Append(cur, t[i]), acc)

SplitWs(t) == SplitWsFrom(t, 1, <<>>, <<>>)

\* str.split(","): empty pieces are kept
RECURSIVE SplitCommaFrom(_, _, _, _)
SplitCommaFrom(t, i, cur, acc) ==
    IF i > Len(t)
    THEN Append(acc, cur)
    ELSE IF t[i] = ","
         THEN SplitCommaFrom(t, i + 1, <<>>, Append(acc, cur))
         ELSE SplitCommaFrom(t, i + 1, Append(cur, t[i]), acc)

SplitComma(t) == SplitCommaFrom(t, 1, <<>>, <<>>)

\* sep.join(parts)
RECURSIVE Join(_, _)
Join(sep, parts) ==
    IF Len(parts) = 0 THEN <<>>
    ELSE IF Len(parts) = 1 THEN parts[1]
    ELSE parts[1] \o sep \o Join(sep, Tail(parts))

----------------------------------------------------------------------------
(* The schedule file /etc/crontabs/root *)

\* a file: whether it exists, its lines, and whether the last line ends
\* with a newline
File(lines, eofnl) == [exists |-> TRUE, lines |-> lines, eofnl |-> eofnl]

NoFile == [exists |-> FALSE, lines |-> <<>>, eofnl |-> FALSE]

\* ExtendSettings; present is FALSE when the configuration has no
\* EXTENDTIME section (self.extend_settings is None)
ExtendSettings(default_hour, default_minutes, max_hour, extend_hours) ==
    [present |-> TRUE, default_hour |-> default_hour,
     default_minutes |-> default_minutes, max_hour |-> max_hour,
     keyword |-> "extend", allowed_senders |-> {"alice"},
     extend_hours |-> extend_hours]

NoExtendSettings ==
    [present |-> FALSE, default_hour |-> <<>>, default_minutes |-> <<>>,
     max_hour |-> <<>>, keyword |-> "", allowed_senders |-> {},
     extend_hours |-> <<>>]

\* "poweroff.py" in line
HasPoweroff(line) == \E i \in 1..Len(line) : line[i] = "poweroff.py"

\* index of the last line holding "poweroff.py", 0 when there is none
LastPoweroffLine(lines) ==
    IF \E i \in 1..Len(lines) : HasPoweroff(lines[i])
    THEN CHOOSE i \in 1..Len(lines) :
             /\ HasPoweroff(lines[i])
             /\ \A j \in (i + 1)..Len(lines) : ~HasPoweroff(lines[j])
    ELSE 0

\* index of the first line holding "poweroff.py", 0 when there is none
FirstPoweroffLine(lines) ==
    IF \E i \in 1..Len(lines) : HasPoweroff(lines[i])
    THEN CHOOSE i \in 1..Len(lines) :
             /\ HasPoweroff(lines[i])
             /\ \A j \in 1..(i - 1) : ~HasPoweroff(lines[j])
    ELSE 0

\* max_hour_value without the reading of "0" and "00" as midnight
max_hour_value_plain(max_hour) == ParseInt(max_hour)

\* max_hour_value of _extend_cron_schedule
max_hour_value(max_hour) ==
    IF max_hour \in {<<"0">>, <<"0", "0">>} THEN 24 ELSE ParseInt(max_hour)

\* The outcome of a schedule operation: the file afterwards, whether the
\* file was written, whether an exception left the function, and the
\* returned value.
Outcome(file, wrote, exc, value) ==
    [file |-> file, wrote |-> wrote, raised |-> exc, ret |-> value]

\* _update_cron_default_schedule that restores the hour field only
update_cron_default_schedule_hour_only(file, es) ==
    IF ~es.present THEN Outcome(file, FALSE, FALSE, None)
    ELSE IF ~file.exists THEN Outcome(file, FALSE, FALSE, None)
    ELSE
      LET lines == file.lines
          index == FirstPoweroffLine(lines)
      IN  IF index = 0
          THEN Outcome(File(lines, FALSE), TRUE, FALSE, None)
          ELSE
            LET parts == SplitWs(lines[index])
            IN  IF Len(parts) < 2
                THEN Outcome(file, FALSE, TRUE, None)
                ELSE
                  LET parts1 == [parts EXCEPT
                                   ![2] = es.default_hour \o <<",">>
                                            \o es.max_hour]
                      lines2 == [lines EXCEPT
                                   ![index] = Join(<<" ">>, parts1)]
                  IN  Outcome(File(lines2, FALSE), TRUE, FALSE, None)

\* PowerManager._update_cron_default_schedule
update_cron_default_schedule(file, es) ==
    IF ~es.present THEN Outcome(file, FALSE, FALSE, None)
    ELSE IF ~file.exists THEN Outcome(file, FALSE, FALSE, None)
    ELSE
      LET lines == file.lines
          index == FirstPoweroffLine(lines)
      IN  IF index = 0
          THEN Outcome(File(lines, FALSE), TRUE, FALSE, None)
          ELSE
            LET parts == SplitWs(lines[index])
            IN  IF Len(parts) < 2
                THEN Outcome(file, FALSE, TRUE, None)     \* IndexError
                ELSE
                  LET parts1 == [parts EXCEPT
                                   ![2] = es.default_hour \o <<",">>
                                            \o es.max_hour]
                      parts2 == [parts1 EXCEPT ![1] = es.default_minutes]
                      lines2 == [lines EXCEPT
                                   ![index] = Join(<<" ">>, parts2)]
                  IN  Outcome(File(lines2, FALSE), TRUE, FALSE, None)

\* _extend_cron_schedule without the reduction of the new hour modulo 24
extend_cron_schedule_unwrapped(file, es, extend_hours) ==
    IF ~es.present THEN Outcome(file, FALSE, FALSE, None)
    ELSE IF ~file.exists THEN Outcome(file, FALSE, FALSE, None)
    ELSE
      LET lines == file.lines
          index == FirstPoweroffLine(lines)
      IN  IF index = 0
          THEN Outcome(File(lines, FALSE), TRUE, FALSE, None)
          ELSE
            LET parts == SplitWs(lines[index])
            IN  IF Len(parts) < 2
                THEN Outcome(file, FALSE, TRUE, None)
                ELSE
                  LET hours == SplitComma(parts[2])
                  IN  IF ~IsIntText(hours[1])
                      THEN Outcome(file, FALSE, TRUE, None)
                      ELSE IF /\ es.max_hour \notin {<<"0">>, <<"0", "0">>}
                              /\ ~IsIntText(es.max_hour)
                      THEN Outcome(file, FALSE, TRUE, None)
                      ELSE
                        LET current_hour == ParseInt(hours[1])
                            new_hour == current_hour + extend_hours
                            clamp == new_hour >= max_hour_value(es.max_hour)
                            hour_field ==
                                IF clamp THEN es.max_hour
                                ELSE Zfill2(Str(new_hour)) \o <<",">>
                                       \o es.max_hour
                            shutdown_time ==
                                (IF clamp THEN Zfill2(es.max_hour)
                                 ELSE Zfill2(Str(new_hour)))
                                \o <<":">> \o Zfill2(parts[1])
                            parts1 == [parts EXCEPT ![2] = hour_field]
                            lines2 == [lines EXCEPT
                                         ![index] = Join(<<" ">>, parts1)]
                        IN  Outcome(File(lines2, FALSE), TRUE, FALSE,
                                    shutdown_time)

\* PowerManager._extend_cron_schedule
extend_cron_schedule(file, es, extend_hours) ==
    IF ~es.present THEN Outcome(file, FALSE, FALSE, None)
    ELSE IF ~file.exists THEN Outcome(file, FALSE, FALSE, None)
    ELSE
      LET lines == file.lines
          index == FirstPoweroffLine(lines)
      IN  IF index = 0
          THEN Outcome(File(lines, FALSE), TRUE, FALSE, None)
          ELSE
            LET parts == SplitWs(lines[index])
            IN  IF Len(parts) < 2
                THEN Outcome(file, FALSE, TRUE, None)     \* IndexError
                ELSE
                  LET hours == SplitComma(parts[2])
                  IN  IF ~IsIntText(hours[1])
                      THEN Outcome(file, FALSE, TRUE, None) \* ValueError
                      ELSE IF /\ es.max_hour \notin {<<"0">>, <<"0", "0">>}
                              /\ ~IsIntText(es.max_hour)
                      THEN Outcome(file, FALSE, TRUE, None) \* ValueError
                      ELSE
                        LET current_hour == ParseInt(hours[1])
                            new_hour == (current_hour + extend_hours) % 24
                            clamp == new_hour >= max_hour_value(es.max_hour)
                            hour_field ==
                                IF clamp THEN es.max_hour
                                ELSE Zfill2(Str(new_hour)) \o <<",">>
                                       \o es.max_hour
                            shutdown_time ==
                                (IF clamp THEN Zfill2(es.max_hour)
                                 ELSE Zfill2(Str(new_hour)))
                                \o <<":">> \o Zfill2(parts[1])
                            parts1 == [parts EXCEPT ![2] = hour_field]
                            lines2 == [lines EXCEPT
                                         ![index] = Join(<<" ">>, parts1)]
                        IN  Outcome(File(lines2, FALSE), TRUE, FALSE,
                                    shutdown_time)

----------------------------------------------------------------------------
(* Configuration of the node and of the mail commands *)

\* NodeSettings: creds is all([user, password, ssh_port]); mac_valid is
\* whether send_magic_packet accepts the hardware address
Node(creds, mac_valid) == [creds |-> creds, mac_valid |-> mac_valid]

\* PowerOffSettings; has_allowed is FALSE when the POWEROFF section has no
\* ALLOWED_SENDERS option (allowed_senders is None)
PowerOffSettings(has_keyword, has_allowed, allowed) ==
    [present |-> TRUE, keyword |-> IF has_keyword THEN "poweroff" ELSE "",
     has_keyword |-> has_keyword,
     has_allowed |-> has_allowed, allowed_senders |-> allowed]

NoPowerOffSettings ==
    [present |-> FALSE, keyword |-> "", has_keyword |-> FALSE,
     has_allowed |-> FALSE, allowed_senders |-> {}]

\* ExtraNode: creds is that user, password and ssh_port are all there
ExtraNode(creds, mac_valid) == [creds |-> creds, mac_valid |-> mac_valid]

\* self.extra_nodes: a complete node, one without credentials and one with
\* a malformed hardware address
\* a subprocess.CompletedProcess: the exit code, and whether stdout is
\* not empty
CompletedProcess(returncode, stdout) ==
    [returncode |-> returncode, stdout |-> stdout]

NoCompleted == CompletedProcess(0, FALSE)

CompletedProcesses == [returncode : {0, 255}, stdout : BOOLEAN]

extra_nodes ==
    <<ExtraNode(TRUE, TRUE), ExtraNode(FALSE, TRUE), ExtraNode(TRUE, FALSE),
      ExtraNode(TRUE, TRUE)>>

\* no extra node was pinged
NoPing == [k \in 1..Len(extra_nodes) |-> FALSE]

\* PowerOnSettings
power_on_settings ==
    [present |-> TRUE, keyword |-> "poweron", allowed_senders |-> {"alice"}]

\* self.mail: the MAIL section is configured
mail == TRUE

\* the sender of a message whose From header holds no address
NoSender == "-"

Senders == {"alice", "mallory", NoSender}

Subjects == {"PowerOff", "PowerOn", "Extend", "hello"}

\* str.lower on the subjects and keywords that occur
Lower(t) ==
    CASE t = "PowerOff" -> "poweroff"
      [] t = "PowerOn" -> "poweron"
      [] t = "Extend" -> "extend"
      [] OTHER -> t

Messages == [subject : Subjects, sender : Senders]

NoMessage == [subject |-> "", sender |-> NoSender]

----------------------------------------------------------------------------
(* What an operation causes *)

\* probes: calls of _port_open; wol: magic packets sent; remote: remote
\* commands run; wrote: writes of the schedule file; pushes: push
\* notifications; replies: the e-mails sent; logs: lines written to the
\* log file; exit: sys.exit was called
\* deleted: the message was flagged \Deleted; online: what the probe of
\* the primary node returned; ping: what _ping returned for each extra
\* node; result: what the remote command of the primary node returned
NoEffect ==
    [msg |-> NoMessage, probes |-> 0, wol |-> 0, remote |-> 0, wrote |-> 0,
     pushes |-> 0, replies |-> <<>>, logs |-> <<>>, exit |-> FALSE,
     woken |-> {}, shut |-> {}, deleted |-> FALSE, online |-> FALSE,
     ping |-> NoPing, result |-> NoCompleted]

\* the empty dict; a ledger is a function from senders to credit texts
EmptyLedger == [s \in {} |-> <<>>]

\* the state file: whether it exists, its modification time, and the
\* ledger that json.load reads from it
StateFile(mtime, ledger) ==
    [exists |-> TRUE, mtime |-> mtime, credits |-> ledger]

NoStateFile == [exists |-> FALSE, mtime |-> 0, credits |-> EmptyLedger]

\* the scripts' state where no script has run
NoScriptState ==
    /\ allowed_senders = <<"alice">>
    /\ allowed_credits = <<<<"1">>>>
    /\ credits = EmptyLedger
    /\ state_file = NoStateFile
    /\ now = 0
    /\ shutdowntime = <<"0", "0", ":", "0", "0">>
    /\ fetched = 0

\* one process working on the schedule file: "start" before
\* handle.read(), "read" between the read and the write, "done" after; read
\* is the text it holds
Run(at, read) == [pc |-> at, read |-> read]

\* no second process: every operation runs from its read to its write alone
NoRuns == [start |-> NoFile, extend |-> Run("done", NoFile),
           reset |-> Run("done", NoFile)]

Reply(to, body) == [to |-> to, body |-> body]

\* the result of a handler: its effects, the schedule file afterwards and
\* whether an exception left it
Result(eff, file, exc) == [eff |-> eff, cron |-> file, raised |-> exc]

\* the dry-run banner that every operation writes to its log first
DryRunLog(dry, line) == IF dry THEN <<line>> ELSE <<>>

----------------------------------------------------------------------------
(* Reading the schedule line back *)

HasScheduleLine(file) ==
    /\ file.exists
    /\ FirstPoweroffLine(file.lines) # 0
    /\ Len(SplitWs(file.lines[FirstPoweroffLine(file.lines)])) >= 2

ScheduleParts(file) == SplitWs(file.lines[FirstPoweroffLine(file.lines)])

MinuteField(file) == ScheduleParts(file)[1]

HourField(file) == ScheduleParts(file)[2]

FirstHourText(file) == SplitComma(HourField(file))[1]

----------------------------------------------------------------------------
(* Values the configuration and the schedule file are drawn from *)

HourTexts == {Str(h) : h \in 0..23}

MaxHourTexts == {Str(h) : h \in 0..24} \cup {<<"0", "0">>}

DefaultHourTexts == {<<"7">>, <<"2", "2">>}

DefaultMinuteTexts == {<<"5">>}

\* EXTEND_TIME_IN_HOURS: absent, or a number of hours
ExtendHourTexts == {<<>>} \cup {Str(e) : e \in 0..MaxExtendHours}

\* one crontab line: minute, hour, the date fields, the command
CronLine(minute, hour_field, program) ==
    Join(<<" ">>, <<minute, hour_field, <<"*">>, <<program>>>>)

OtherJobLine == CronLine(<<"0">>, <<"7">>, "poweron.py")

\* the schedule files a run can find: the line of another job, then the
\* poweroff.py line with any first hour
GoodCronFiles ==
    {File(<<OtherJobLine, CronLine(<<"3", "0">>, hf, "poweroff.py")>>, TRUE) :
        hf \in HourTexts}

\* a file with two lines that hold "poweroff.py", another job between them
TwoScheduleLinesFile ==
    File(<<CronLine(<<"3", "0">>, <<"2", "0">>, "poweroff.py"),
           OtherJobLine,
           CronLine(<<"1", "5">>, <<"2", "1">>, "poweroff.py")>>, TRUE)

\* files on which the schedule line cannot be found or parsed
BadCronFiles ==
    {NoFile,
     File(<<OtherJobLine>>, TRUE),
     File(<<CronLine(<<"0">>, <<"*">>, "poweroff.py")>>, TRUE),
     File(<<<<"poweroff.py">>>>, TRUE)}

AllExtendSettings ==
    {ExtendSettings(dh, dm, mh, eh) :
        dh \in DefaultHourTexts, dm \in DefaultMinuteTexts,
        mh \in MaxHourTexts, eh \in ExtendHourTexts}

\* int(self.extend_settings.extend_hours or 0)
extend_hours_of(es) ==
    IF es.extend_hours = <<>> THEN 0 ELSE ParseInt(es.extend_hours)

----------------------------------------------------------------------------
(* SpecSchedule: the two schedule functions called in any order on any     *)
(* schedule file, with the configured number of hours                      *)

InitSchedule ==
    /\ enabled = TRUE
    /\ dry_run = FALSE
    /\ verbose_logging = FALSE
    /\ extend_settings \in AllExtendSettings
    /\ cron \in GoodCronFiles \cup BadCronFiles \cup {TwoScheduleLinesFile}
    /\ power_off_settings = NoPowerOffSettings
    /\ node = Node(TRUE, TRUE)
    /\ pc = "idle"
    /\ op = "init"
    /\ ret = None
    /\ raised = FALSE
    /\ runs = NoRuns
    /\ last = NoEffect
    /\ NoScriptState

ExtendCall ==
    LET o == extend_cron_schedule(cron, extend_settings,
                                  extend_hours_of(extend_settings))
    IN  /\ cron' = o.file
        /\ ret' = o.ret
        /\ raised' = o.raised
        /\ op' = "extend"
        /\ UNCHANGED <<Config, runs, ScriptState, pc, last>>

ResetCall ==
    LET o == update_cron_default_schedule(cron, extend_settings)
    IN  /\ cron' = o.file
        /\ ret' = o.ret
        /\ raised' = o.raised
        /\ op' = "reset"
        /\ UNCHANGED <<Config, runs, ScriptState, pc, last>>

NextSchedule == ExtendCall \/ ResetCall

SpecSchedule == InitSchedule /\ [][NextSchedule]_vars

----------------------------------------------------------------------------
(* PowerManager: the cron-triggered operations on the primary node *)

\* PowerManager.power_on; online is what _port_open returns
power_on(en, dry, nd, online) ==
    LET e0 == [NoEffect EXCEPT
                 !.logs = DryRunLog(dry, "PowerOn - Dry run.")]
    IN  IF ~en
        THEN [e0 EXCEPT
                !.logs = @ \o <<"PowerOn - Service is disabled by cron">>]
        ELSE IF online
        THEN [e0 EXCEPT
                !.probes = 1, !.online = online,
                !.logs = @ \o <<"PowerOn - Nodes already running by cron">>]
        ELSE IF dry
        THEN [e0 EXCEPT !.probes = 1, !.online = online]
        ELSE IF ~nd.mac_valid
        THEN [e0 EXCEPT !.probes = 1, !.online = online, !.exit = TRUE]     \* sys.exit(1)
        ELSE [e0 EXCEPT
                !.probes = 1, !.online = online,
                !.wol = 1,
                !.logs = @ \o <<"PowerOn - Sending WOL command by cron">>,
                !.pushes = 1]

\* power_off that returns when the remote command has failed
power_off_checked(en, dry, pos, es, nd, file, online, result) ==
    LET e0 == [NoEffect EXCEPT
                 !.logs = DryRunLog(dry, "PowerOff - Dry run.")]
    IN  IF ~en
        THEN Result([e0 EXCEPT
                       !.logs = @ \o
                           <<"PowerOff - Service is disabled by cron">>],
                    file, FALSE)
        ELSE IF ~online
        THEN Result([e0 EXCEPT
                       !.probes = 1, !.online = online,
                       !.logs = @ \o
                           <<"PowerOff - Node already down by cron">>],
                    file, FALSE)
        ELSE IF dry \/ ~pos.present \/ ~nd.creds
        THEN Result([e0 EXCEPT !.probes = 1, !.online = online], file, FALSE)
        ELSE IF result.returncode # 0
        THEN Result([e0 EXCEPT
                       !.probes = 1, !.online = online,
                       !.remote = 1,
                       !.result = result],
                    file, FALSE)
        ELSE
          LET o == update_cron_default_schedule(file, es)
          IN  Result([e0 EXCEPT
                        !.probes = 1, !.online = online,
                        !.remote = 1,
                        !.result = result,
                        !.logs = @ \o
                            <<"PowerOff - Sending SLEEP command by cron">>,
                        !.pushes = 1,
                        !.wrote = IF o.wrote THEN 1 ELSE 0],
                     o.file, o.raised)

\* PowerManager.power_off; online is what _port_open returns and result
\* what _run_remote_command returns
power_off(en, dry, pos, es, nd, file, online, result) ==
    LET e0 == [NoEffect EXCEPT
                 !.logs = DryRunLog(dry, "PowerOff - Dry run.")]
    IN  IF ~en
        THEN Result([e0 EXCEPT
                       !.logs = @ \o
                           <<"PowerOff - Service is disabled by cron">>],
                    file, FALSE)
        ELSE IF ~online
        THEN Result([e0 EXCEPT
                       !.probes = 1, !.online = online,
                       !.logs = @ \o
                           <<"PowerOff - Node already down by cron">>],
                    file, FALSE)
        ELSE IF dry
        THEN Result([e0 EXCEPT !.probes = 1, !.online = online], file, FALSE)
        ELSE IF ~pos.present
        THEN Result([e0 EXCEPT !.probes = 1, !.online = online], file, FALSE)
        ELSE IF ~nd.creds
        THEN Result([e0 EXCEPT !.probes = 1, !.online = online], file, FALSE)
        ELSE
          LET o == update_cron_default_schedule(file, es)
          IN  Result([e0 EXCEPT
                        !.probes = 1, !.online = online,
                        !.remote = 1,
                        !.result = result,
                        !.logs = @ \o
                            <<"PowerOff - Sending SLEEP command by cron">>,
                        !.pushes = 1,
                        !.wrote = IF o.wrote THEN 1 ELSE 0],
                     o.file, o.raised)

\* one log line per node of the set, in the order of the list
RECURSIVE NodeLogs(_, _, _)
NodeLogs(acted, i, line) ==
    IF i > Len(extra_nodes) THEN <<>>
    ELSE (IF i \in acted THEN <<line>> ELSE <<>>)
         \o NodeLogs(acted, i + 1, line)

\* power_on_extra_nodes without the probe of the primary node
power_on_extra_nodes_unprobed(en, dry, online, ping) ==
    LET e0 == [NoEffect EXCEPT
                 !.logs = DryRunLog(dry, "Poweron - Dry run.")]
        acted == {i \in 1..Len(extra_nodes) :
                     ~ping[i] /\ extra_nodes[i].mac_valid}
    IN  IF Len(extra_nodes) = 0 THEN NoEffect
        ELSE IF ~en THEN e0
        ELSE IF dry THEN [e0 EXCEPT !.probes = 1, !.online = online]
        ELSE [e0 EXCEPT
                !.probes = 1, !.online = online,
                !.wol = Cardinality(acted),
                !.woken = acted,
                !.ping = ping,
                !.pushes = Cardinality(acted),
                !.logs = @ \o NodeLogs(acted, 1,
                           "PowerOn Extra Nodes - WOL command sent")]

\* PowerManager.power_on_extra_nodes; online is what _port_open returns for
\* the primary node and ping[i] what _ping returns for extra node i
power_on_extra_nodes(en, dry, online, ping) ==
    LET e0 == [NoEffect EXCEPT
                 !.logs = DryRunLog(dry, "Poweron - Dry run.")]
        acted == {i \in 1..Len(extra_nodes) :
                     ~ping[i] /\ extra_nodes[i].mac_valid}
    IN  IF Len(extra_nodes) = 0 THEN NoEffect
        ELSE IF ~en THEN e0
        ELSE IF ~online THEN [e0 EXCEPT !.probes = 1, !.online = online]
        ELSE IF dry THEN [e0 EXCEPT !.probes = 1, !.online = online]
        ELSE [e0 EXCEPT
                !.probes = 1, !.online = online,
                !.wol = Cardinality(acted),
                !.woken = acted,
                !.ping = ping,
                !.pushes = Cardinality(acted),
                !.logs = @ \o NodeLogs(acted, 1,
                           "PowerOn Extra Nodes - WOL command sent")]

\* power_off_extra_nodes where a node without credentials ends the loop
power_off_extra_nodes_until_skip(en, dry, online, ping) ==
    LET e0 == [NoEffect EXCEPT
                 !.logs = DryRunLog(dry, "PowerOff - Dry run.")]
        acted == {i \in 1..Len(extra_nodes) :
                     /\ extra_nodes[i].creds /\ ping[i]
                     /\ \A j \in 1..i : extra_nodes[j].creds}
    IN  IF Len(extra_nodes) = 0 THEN NoEffect
        ELSE IF ~en THEN e0
        ELSE IF online THEN [e0 EXCEPT !.probes = 1, !.online = online]
        ELSE IF dry THEN [e0 EXCEPT !.probes = 1, !.online = online]
        ELSE [e0 EXCEPT
                !.probes = 1, !.online = online,
                !.remote = Cardinality(acted),
                !.shut = acted,
                !.ping = ping,
                !.pushes = Cardinality(acted),
                !.logs = @ \o NodeLogs(acted, 1,
                           "PowerOff Extra Nodes - SLEEP command sent")]

\* PowerManager.power_off_extra_nodes
power_off_extra_nodes(en, dry, online, ping) ==
    LET e0 == [NoEffect EXCEPT
                 !.logs = DryRunLog(dry, "PowerOff - Dry run.")]
        acted == {i \in 1..Len(extra_nodes) :
                     extra_nodes[i].creds /\ ping[i]}
    IN  IF Len(extra_nodes) = 0 THEN NoEffect
        ELSE IF ~en THEN e0
        ELSE IF online THEN [e0 EXCEPT !.probes = 1, !.online = online]
        ELSE IF dry THEN [e0 EXCEPT !.probes = 1, !.online = online]
        ELSE [e0 EXCEPT
                !.probes = 1, !.online = online,
                !.remote = Cardinality(acted),
                !.shut = acted,
                !.ping = ping,
                !.pushes = Cardinality(acted),
                !.logs = @ \o NodeLogs(acted, 1,
                           "PowerOff Extra Nodes - SLEEP command sent")]

----------------------------------------------------------------------------
(* PowerManager: the mail-triggered operations, one message at a time *)

\* PowerManager._handle_power_off_request
handle_power_off_request(en, dry, pos, es, nd, file, sender, online) ==
    IF ~en
    THEN Result([NoEffect EXCEPT
                   !.logs = <<"PowerOff - Service is disabled by sender">>,
                   !.replies = <<Reply(sender, "service disabled")>>],
                file, FALSE)
    ELSE IF online /\ ~dry
    THEN IF ~pos.present
         THEN Result([NoEffect EXCEPT !.probes = 1, !.online = online], file, FALSE)
         ELSE IF ~nd.creds
         THEN Result([NoEffect EXCEPT !.probes = 1, !.online = online], file, FALSE)
         ELSE
           LET o == update_cron_default_schedule(file, es)
           IN  IF o.raised
               THEN Result([NoEffect EXCEPT !.probes = 1, !.online = online, !.remote = 1],
                           o.file, TRUE)
               ELSE Result([NoEffect EXCEPT
                              !.probes = 1, !.online = online,
                              !.remote = 1,
                              !.wrote = IF o.wrote THEN 1 ELSE 0,
                              !.logs =
                                <<"PowerOff - Sending SLEEP command by sender">>,
                              !.pushes = 1,
                              !.replies =
                                <<Reply(sender, "is being shut down")>>],
                           o.file, FALSE)
    ELSE Result([NoEffect EXCEPT
                   !.probes = 1, !.online = online,
                   !.logs = <<"PowerOff - Nodes not running by sender">>,
                   !.replies =
                     <<Reply(sender, IF online THEN "is being shut down"
                                     ELSE "already off")>>],
                file, FALSE)

\* the body of the loop of PowerManager.power_off_from_mail
power_off_from_mail_message(en, dry, pos, es, nd, file, m, online) ==
    IF m.sender = NoSender THEN Result(NoEffect, file, FALSE)
    ELSE IF ~pos.has_keyword THEN Result(NoEffect, file, FALSE)
    ELSE IF Lower(m.subject) # Lower(pos.keyword)
    THEN Result(NoEffect, file, FALSE)
    ELSE IF /\ pos.has_allowed
            /\ pos.allowed_senders # {}
            /\ m.sender \notin pos.allowed_senders
    THEN Result([NoEffect EXCEPT
                   !.logs = <<"PowerOff - Found matching subject">>],
                file, FALSE)
    ELSE
      LET r == handle_power_off_request(en, dry, pos, es, nd, file,
                                        m.sender, online)
      IN  Result([r.eff EXCEPT
                    !.logs = <<"PowerOff - Found matching subject">> \o @],
                 r.cron, r.raised)

\* the body of the loop of PowerManager.power_on_from_mail: the call of
\* _handle_power_on_request is commented out
power_on_from_mail_message(file, m) ==
    IF m.sender = NoSender THEN Result(NoEffect, file, FALSE)
    ELSE IF Lower(m.subject) # Lower(power_on_settings.keyword)
    THEN Result(NoEffect, file, FALSE)
    ELSE IF m.sender \notin power_on_settings.allowed_senders
    THEN Result(NoEffect, file, FALSE)
    ELSE Result([NoEffect EXCEPT
                   !.logs = <<"PowerOn - Found matching subject">>],
                file, FALSE)

\* the body of the loop of PowerManager.extend_shutdown_from_mail
extend_shutdown_from_mail_message(es, file, m) ==
    IF m.sender = NoSender THEN Result(NoEffect, file, FALSE)
    ELSE IF Lower(m.subject) # Lower(es.keyword)
    THEN Result(NoEffect, file, FALSE)
    ELSE IF m.sender \notin es.allowed_senders
    THEN Result(NoEffect, file, FALSE)
    ELSE
      LET o == extend_cron_schedule(file, es, extend_hours_of(es))
      IN  IF o.raised
          THEN Result(NoEffect, o.file, TRUE)
          ELSE Result([NoEffect EXCEPT
                         !.wrote = IF o.wrote THEN 1 ELSE 0,
                         !.replies =
                           <<Reply(m.sender,
                                   IF o.ret # None THEN "stays on until"
                                   ELSE "could not change the shutdown")>>],
                      o.file, FALSE)

----------------------------------------------------------------------------
(* SpecManager: the operations of PowerManager.  The cron-triggered ones   *)
(* are one step each; a mail-triggered one begins a scan, handles the      *)
(* messages the mailbox yields one by one, and ends.                       *)

ManagerExtendSettings ==
    ExtendSettings(<<"2", "0">>, <<"5">>, <<"2", "2">>, <<"1">>)

ManagerCronFiles ==
    {File(<<OtherJobLine, CronLine(<<"3", "0">>, <<"2", "0">>, "poweroff.py")>>,
          TRUE)}
    \cup BadCronFiles

AllPowerOffSettings ==
    {NoPowerOffSettings,
     PowerOffSettings(FALSE, TRUE, {"alice"}),
     PowerOffSettings(TRUE, FALSE, {}),
     PowerOffSettings(TRUE, TRUE, {}),
     PowerOffSettings(TRUE, TRUE, {"alice"})}

AllNodes == {Node(TRUE, TRUE), Node(FALSE, TRUE), Node(TRUE, FALSE)}

InitManager ==
    /\ enabled \in BOOLEAN
    /\ dry_run \in BOOLEAN
    /\ verbose_logging = FALSE
    /\ extend_settings = ManagerExtendSettings
    /\ power_off_settings \in AllPowerOffSettings
    /\ node \in AllNodes
    /\ cron \in ManagerCronFiles
    /\ pc = "idle"
    /\ op = "init"
    /\ ret = None
    /\ raised = FALSE
    /\ runs = NoRuns
    /\ last = NoEffect
    /\ NoScriptState

PowerOn ==
    /\ pc = "idle"
    /\ \E online \in BOOLEAN :
          last' = power_on(enabled, dry_run, node, online)
    /\ op' = "power_on"
    /\ raised' = FALSE
    /\ UNCHANGED <<Config, runs, ScriptState, cron, pc, ret>>

PowerOff ==
    /\ pc = "idle"
    /\ \E online \in BOOLEAN, result \in CompletedProcesses :
          LET r == power_off(enabled, dry_run, power_off_settings,
                             extend_settings, node, cron, online, result)
          IN  /\ last' = r.eff
              /\ cron' = r.cron
              /\ raised' = r.raised
    /\ op' = "power_off"
    /\ UNCHANGED <<Config, runs, ScriptState, pc, ret>>

PowerOnExtraNodes ==
    /\ pc = "idle"
    /\ \E online \in BOOLEAN, ping \in [1..Len(extra_nodes) -> BOOLEAN] :
          last' = power_on_extra_nodes(enabled, dry_run, online, ping)
    /\ op' = "power_on_extra_nodes"
    /\ raised' = FALSE
    /\ UNCHANGED <<Config, runs, ScriptState, cron, pc, ret>>

PowerOffExtraNodes ==
    /\ pc = "idle"
    /\ \E online \in BOOLEAN, ping \in [1..Len(extra_nodes) -> BOOLEAN] :
          last' = power_off_extra_nodes(enabled, dry_run, online, ping)
    /\ op' = "power_off_extra_nodes"
    /\ raised' = FALSE
    /\ UNCHANGED <<Config, runs, ScriptState, cron, pc, ret>>

\* the operation returns at once when its settings or the mail settings
\* are missing; otherwise it writes the dry-run banner and starts fetching
BeginScan(name, configured, banner) ==
    /\ pc = "idle"
    /\ op' = name
    /\ raised' = FALSE
    /\ IF configured /\ mail
       THEN /\ pc' = "scan"
            /\ last' = [NoEffect EXCEPT !.logs = DryRunLog(dry_run, banner)]
       ELSE /\ pc' = "idle"
            /\ last' = NoEffect
    /\ UNCHANGED <<Config, runs, ScriptState, cron, ret>>

BeginPowerOffFromMail ==
    BeginScan("power_off_from_mail", power_off_settings.present,
              "PowerOff - Dry run.")

BeginPowerOnFromMail ==
    BeginScan("power_on_from_mail", power_on_settings.present,
              "PowerOn - Dry run.")

BeginExtendFromMail ==
    BeginScan("extend_shutdown_from_mail", extend_settings.present,
              "PowerOff - Dry run.")

\* one message has been handled with result r; an exception ends the run
Handled(m, r) ==
    /\ last' = [r.eff EXCEPT !.msg = m]
    /\ cron' = r.cron
    /\ raised' = r.raised
    /\ pc' = IF r.raised THEN "idle" ELSE "scan"
    /\ UNCHANGED <<Config, runs, ScriptState, op, ret>>

PowerOffMessage ==
    /\ pc = "scan"
    /\ op = "power_off_from_mail"
    /\ \E m \in Messages, online \in BOOLEAN :
          Handled(m, power_off_from_mail_message(
                         enabled, dry_run, power_off_settings,
                         extend_settings, node, cron, m, online))

PowerOnMessage ==
    /\ pc = "scan"
    /\ op = "power_on_from_mail"
    /\ \E m \in Messages : Handled(m, power_on_from_mail_message(cron, m))

ExtendMessage ==
    /\ pc = "scan"
    /\ op = "extend_shutdown_from_mail"
    /\ \E m \in Messages :
          Handled(m, extend_shutdown_from_mail_message(
                         extend_settings, cron, m))

\* the mailbox yields no further message: imap.logout()
EndScan ==
    /\ pc = "scan"
    /\ pc' = "idle"
    /\ UNCHANGED <<Config, runs, ScriptState, cron, op, ret, raised, last>>

NextManager ==
    \/ PowerOn
    \/ PowerOff
    \/ PowerOnExtraNodes
    \/ PowerOffExtraNodes
    \/ BeginPowerOffFromMail
    \/ BeginPowerOnFromMail
    \/ BeginExtendFromMail
    \/ PowerOffMessage
    \/ PowerOnMessage
    \/ ExtendMessage
    \/ EndScan

SpecManager == InitManager /\ [][NextManager]_vars

----------------------------------------------------------------------------
(* The stand-alone scripts poweroff.py, poweroffbymail.py,                 *)
(* poweroffdelaybymail.py and poweronbymail.py.  Each keeps its own copy   *)
(* of the schedule handling; it reads the file with content.split('\n'),   *)
(* which keeps the newline at the end of the file.                         *)

\* the keywords of the POWEROFF, EXTENDTIME and POWERON sections
poweroff_keyword == "poweroff"

extend_keyword == "extend"

poweron_keyword == "poweron"

\* match.group(0) in self.allowed_senders
InAllowed(sender, senders) == \E k \in 1..Len(senders) : senders[k] = sender

\* the reset of the schedule line in POWEROFF.run
reset_crontab(file, es) ==
    IF ~file.exists THEN Outcome(file, FALSE, FALSE, None)
    ELSE
      LET lines == file.lines
          index == FirstPoweroffLine(lines)
      IN  IF index = 0
          THEN Outcome(file, TRUE, FALSE, None)
          ELSE
            LET parts == SplitWs(lines[index])
            IN  IF Len(parts) < 2
                THEN Outcome(file, FALSE, TRUE, None)     \* IndexError
                ELSE
                  LET parts1 == [parts EXCEPT
                                   ![2] = es.default_hour \o <<",">>
                                            \o es.max_hour]
                      parts2 == [parts1 EXCEPT ![1] = es.default_minutes]
                      lines2 == [lines EXCEPT
                                   ![index] = Join(<<" ">>, parts2)]
                  IN  Outcome(File(lines2, file.eofnl), TRUE, FALSE, None)

\* POWEROFF.run of poweroff.py
POWEROFF_run(en, dry, es, file, online) ==
    LET banner == DryRunLog(dry, "PowerOff - Dry run.")
    IN  IF ~en
        THEN Result([NoEffect EXCEPT
                       !.logs = banner
                                \o <<"PowerOff - Service is disabled by cron">>],
                    file, FALSE)
        ELSE IF ~online
        THEN Result([NoEffect EXCEPT
                       !.probes = 1, !.online = online,
                       !.logs = banner
                                \o <<"PowerOff - Node already down by cron">>],
                    file, FALSE)
        ELSE
          LET o == reset_crontab(file, es)
              sent == [NoEffect EXCEPT
                         !.probes = 1, !.online = online,
                         !.remote = IF dry THEN 0 ELSE 1,
                         !.pushes = IF dry THEN 0 ELSE 1,
                         !.logs =
                           banner \o
                           (IF dry THEN <<>>
                            ELSE <<"PowerOff - Sending SLEEP command by cron">>)]
          IN  Result([sent EXCEPT !.wrote = IF o.wrote THEN 1 ELSE 0],
                     o.file, o.raised)

\* the body of the loop of POBE.run of poweroffbymail.py; match is None
\* when the From header holds no address, and match.group(0) then raises
poweroffbymail_message(en, dry, verbose, es, senders, file, m, online) ==
    IF Lower(m.subject) # Lower(poweroff_keyword)
    THEN IF ~verbose THEN Result(NoEffect, file, FALSE)
         ELSE IF m.sender = NoSender THEN Result(NoEffect, file, TRUE)
         ELSE Result([NoEffect EXCEPT
                        !.logs = <<"PowerOff - Subject not recognized.">>],
                     file, FALSE)
    ELSE IF m.sender = NoSender THEN Result(NoEffect, file, TRUE)
    ELSE
      LET found == <<"PowerOff - Found matching subject from sender">>
          mark == <<"PowerOff - Marking message for delete.">>
      IN  IF ~InAllowed(m.sender, senders)
          THEN Result([NoEffect EXCEPT
                         !.logs = found
                                  \o <<"PowerOff - sender not in list">>
                                  \o mark,
                         !.deleted = ~dry],
                      file, FALSE)
          ELSE IF ~en
          THEN Result([NoEffect EXCEPT
                         !.logs =
                           found
                           \o <<"PowerOff - Service is disabled by sender">>
                           \o <<"PowerOff - Mail Sent to sender">> \o mark,
                         !.replies = <<Reply(m.sender, "service disabled")>>,
                         !.deleted = ~dry],
                      file, FALSE)
          ELSE IF ~online
          THEN Result([NoEffect EXCEPT
                         !.probes = 1, !.online = online,
                         !.logs =
                           found
                           \o <<"PowerOff - Nodes not running by sender">>
                           \o <<"PowerOff - Mail Sent to sender">> \o mark,
                         !.replies = <<Reply(m.sender, "already off")>>,
                         !.deleted = ~dry],
                      file, FALSE)
          ELSE
            LET o == reset_crontab(file, es)
                ran == [NoEffect EXCEPT
                          !.probes = 1, !.online = online,
                          !.remote = IF dry THEN 0 ELSE 1,
                          !.logs = found]
            IN  IF o.raised THEN Result(ran, o.file, TRUE)
                ELSE Result([ran EXCEPT
                               !.wrote = IF o.wrote THEN 1 ELSE 0,
                               !.pushes = 1,
                               !.logs =
                                 found
                                 \o <<"PowerOff - Sending SLEEP command by sender">>
                                 \o <<"PowerOff - Mail Sent to sender">>
                                 \o mark,
                               !.replies =
                                 <<Reply(m.sender, "is being shut down")>>,
                               !.deleted = ~dry],
                            o.file, FALSE)

----------------------------------------------------------------------------
\* PowerOn.run of poweron.py; a malformed address ends the run normally
PowerOn_run(en, dry, nd, online) ==
    LET e0 == [NoEffect EXCEPT
                 !.logs = DryRunLog(dry, "PowerOn - Dry run.")]
    IN  IF ~en THEN e0
        ELSE IF online
        THEN [e0 EXCEPT
                !.probes = 1, !.online = online,
                !.logs = @ \o <<"PowerOn - Nodes already running by cron">>]
        ELSE IF dry THEN [e0 EXCEPT !.probes = 1, !.online = online]
        ELSE IF ~nd.mac_valid
        THEN [e0 EXCEPT !.probes = 1, !.online = online]
        ELSE [e0 EXCEPT
                !.probes = 1, !.online = online,
                !.wol = 1,
                !.logs = @ \o <<"PowerOn - Sending WOL command by cron">>,
                !.pushes = 1]

\* the result of changeCrontab: its effects, the schedule file and
\* self.shutdowntime afterwards, and whether an exception left it
Changed(eff, file, std, exc) ==
    [eff |-> eff, cron |-> file, shutdowntime |-> std, raised |-> exc]

\* POD.changeCrontab of poweroffdelaybymail.py, called when the probe has
\* found the node reachable and the run is not a dry run: the rewrite of
\* the schedule file
change_crontab_file(file, es, std) ==
    IF ~file.exists THEN Changed(NoEffect, file, std, FALSE)
    ELSE
      LET lines == file.lines
          index == FirstPoweroffLine(lines)
      IN  IF index = 0
          THEN Changed([NoEffect EXCEPT !.wrote = 1], file, std, FALSE)
          ELSE
            LET parts == SplitWs(lines[index])
            IN  IF Len(parts) < 2
                THEN Changed(NoEffect, file, std, TRUE)      \* IndexError
                ELSE IF \/ ~IsIntText(SplitComma(parts[2])[1])
                        \/ ~IsIntText(es.extend_hours)
                        \/ ~IsIntText(es.max_hour)
                THEN Changed(NoEffect, file, std, TRUE)      \* ValueError
                ELSE
                  LET hour == Str((ParseInt(SplitComma(parts[2])[1])
                                   + ParseInt(es.extend_hours)) % 24)
                      clamp == ParseInt(hour) >= ParseInt(es.max_hour)
                      field == IF clamp THEN es.max_hour
                               ELSE hour \o <<",">> \o es.max_hour
                      parts1 == [parts EXCEPT ![2] = field]
                      lines2 == [lines EXCEPT
                                   ![index] = Join(<<" ">>, parts1)]
                  IN  Changed([NoEffect EXCEPT !.wrote = 1],
                              File(lines2, file.eofnl),
                              Zfill2(IF clamp THEN es.max_hour ELSE hour)
                                \o <<":">> \o Zfill2(parts[1]),
                              FALSE)

\* POD.changeCrontab of poweroffdelaybymail.py
changeCrontab(dry, es, file, std, online) ==
    IF ~online
    THEN Changed([NoEffect EXCEPT
                    !.probes = 1, !.online = online,
                    !.logs = <<"PowerOffDelay - Nodes not running by sender">>],
                 file, std, FALSE)
    ELSE
      LET c == IF dry THEN Changed(NoEffect, file, std, FALSE)
               ELSE change_crontab_file(file, es, std)
      IN  IF c.raised
          THEN Changed([c.eff EXCEPT !.probes = 1, !.online = online], c.cron, c.shutdowntime,
                       TRUE)
          ELSE Changed([c.eff EXCEPT
                          !.probes = 1, !.online = online,
                          !.pushes = 1,
                          !.logs = <<"PowerOffDelay - PowerOffdelay by sender">>],
                       c.cron, c.shutdowntime, FALSE)

\* the body of the loop of POD.run of poweroffdelaybymail.py; the reply
\* goes to every allowed sender
poweroffdelaybymail_message(en, dry, verbose, es, senders, file, std, m, online) ==
    IF Lower(m.subject) # Lower(extend_keyword)
    THEN IF ~verbose THEN Changed(NoEffect, file, std, FALSE)
         ELSE IF m.sender = NoSender THEN Changed(NoEffect, file, std, TRUE)
         ELSE Changed([NoEffect EXCEPT
                         !.logs = <<"PowerOffDelay - Subject not recognized.">>],
                      file, std, FALSE)
    ELSE IF m.sender = NoSender THEN Changed(NoEffect, file, std, TRUE)
    ELSE
      LET found == <<"PowerOffDelay - Found matching subject from sender">>
          mark == <<"PowerOffDelay - Marking message for delete.">>
          sent == <<"PowerOffDelay - Mail Sent to sender">>
      IN  IF ~InAllowed(m.sender, senders)
          THEN Changed([NoEffect EXCEPT
                          !.logs = found
                                   \o <<"PowerOffDelay - sender not in list">>
                                   \o mark,
                          !.deleted = ~dry],
                       file, std, FALSE)
          ELSE IF ~en
          THEN Changed([NoEffect EXCEPT
                          !.logs =
                            found
                            \o <<"PowerOffDelay - Service is disabled by sender">>
                            \o sent \o mark,
                          !.replies =
                            [k \in 1..Len(senders) |->
                               Reply(senders[k], "service disabled")],
                          !.deleted = ~dry],
                       file, std, FALSE)
          ELSE
            LET c == changeCrontab(dry, es, file, std, online)
            IN  IF c.raised
                THEN Changed([c.eff EXCEPT !.logs = found], c.cron,
                             c.shutdowntime, TRUE)
                ELSE Changed([c.eff EXCEPT
                                !.logs = found \o @ \o sent \o mark,
                                !.replies =
                                  [k \in 1..Len(senders) |->
                                     Reply(senders[k],
                                           IF online THEN "stays on until"
                                           ELSE "already off")],
                                !.deleted = ~dry],
                             c.cron, c.shutdowntime, FALSE)

----------------------------------------------------------------------------
\* a text that int() accepts: digits with an optional minus sign
IsSignedIntText(t) ==
    /\ Len(t) > 0
    /\ IF t[1] = "-" THEN IsIntText(Tail(t)) ELSE IsIntText(t)

\* int() of a credit text
ParseSigned(t) == IF t[1] = "-" THEN 0 - ParseInt(Tail(t)) ELSE ParseInt(t)

\* dict(zip(senders, texts)): the pairs up to the shorter length, a later
\* pair replacing an earlier one of the same sender
Zip(senders, texts) ==
    LET n == IF Len(senders) < Len(texts) THEN Len(senders) ELSE Len(texts)
    IN  [s \in {senders[k] : k \in 1..n} |->
           texts[CHOOSE k \in 1..n :
                   /\ senders[k] = s
                   /\ \A j \in (k + 1)..n : senders[j] # s]]

\* self.credits.get(sender, 0) != 0: every stored credit is a str, and a
\* str is never equal to the int 0
credit_get_differs_from_zero(ledger, sender) == sender \in DOMAIN ledger

\* the result of a message of poweronbymail.py: its effects, the ledger
\* afterwards and whether an exception or sys.exit() ended the run
Powered(eff, ledger, exc) == [eff |-> eff, credits |-> ledger, raised |-> exc]

\* the body of the loop of POBE.run of poweronbymail.py
poweronbymail_message(en, dry, verbose, nd, senders, ledger, m, online) ==
    IF Lower(m.subject) # Lower(poweron_keyword)
    THEN IF ~verbose THEN Powered(NoEffect, ledger, FALSE)
         ELSE IF m.sender = NoSender THEN Powered(NoEffect, ledger, TRUE)
         ELSE Powered([NoEffect EXCEPT
                         !.logs = <<"PowerOn - Subject not recognized.">>],
                      ledger, FALSE)
    ELSE IF m.sender = NoSender THEN Powered(NoEffect, ledger, TRUE)
    ELSE
      LET found == <<"PowerOn - Found matching subject from sender">>
          mark == <<"PowerOn - Marking message for delete.">>
          sent == <<"PowerOn - Mail Sent to sender">>
      IN  IF ~InAllowed(m.sender, senders)
          THEN Powered([NoEffect EXCEPT
                          !.logs = found \o <<"PowerOn - sender not in list">>
                                   \o mark,
                          !.deleted = ~dry],
                       ledger, FALSE)
          ELSE IF ~en
          THEN Powered([NoEffect EXCEPT
                          !.logs =
                            found
                            \o <<"PowerOn - Service is disabled by sender">>
                            \o sent \o mark,
                          !.replies = <<Reply(m.sender, "service disabled")>>,
                          !.deleted = ~dry],
                       ledger, FALSE)
          ELSE
            LET packet == ~dry /\ credit_get_differs_from_zero(ledger, m.sender)
                probed == [NoEffect EXCEPT !.probes = 1, !.online = online, !.logs = found]
            IN  IF packet /\ ~nd.mac_valid
                THEN Powered([probed EXCEPT !.exit = TRUE], ledger, TRUE)
                ELSE
                  LET woken == [probed EXCEPT
                                  !.wol = IF packet THEN 1 ELSE 0,
                                  !.pushes = 1,
                                  !.logs =
                                    found
                                    \o <<"PowerOn - Sending WOL command by sender">>]
                  IN  IF m.sender \notin DOMAIN ledger
                      THEN Powered(woken, ledger, TRUE)       \* KeyError
                      ELSE IF ~IsSignedIntText(ledger[m.sender])
                      THEN Powered(woken, ledger, TRUE)       \* ValueError
                      ELSE
                        LET credit == ParseSigned(ledger[m.sender])
                            ledger2 ==
                              IF credit > 0
                              THEN [ledger EXCEPT
                                      ![m.sender] = Str(credit - 1)]
                              ELSE ledger
                        IN  Powered([woken EXCEPT
                                       !.logs = @ \o sent \o mark,
                                       !.replies =
                                         <<Reply(m.sender,
                                                 IF credit # 0
                                                 THEN "is being switched on"
                                                 ELSE "credits exhausted")>>,
                                       !.deleted = ~dry],
                                    ledger2, FALSE)

\* the ledger after POBE.__init__ of poweronbymail.py: the state file,
\* when it can be opened, replaces the credits of the configuration
init_credits(senders, texts, sf) ==
    IF sf.exists THEN sf.credits ELSE Zip(senders, texts)

----------------------------------------------------------------------------
(* SpecScripts: runs of the stand-alone scripts.  poweroff.py is one step; *)
(* a mail script is constructed and begins, handles the messages of the    *)
(* mailbox one by one, and ends with expunge, close and logout.            *)

\* the most messages a mailbox holds in one run
MaxMessages == 2

ScriptNames == {"poweroffbymail", "poweroffdelaybymail", "poweronbymail"}

ScriptCronFiles ==
    {File(<<OtherJobLine, CronLine(<<"3", "0">>, <<"2", "0">>, "poweroff.py")>>,
          TRUE),
     File(<<<<"poweroff.py">>>>, TRUE),
     NoFile}

CreditTexts == {<<"0">>, <<"1">>, <<"2">>, <<"-", "1">>}

ScriptStateFiles ==
    {NoStateFile,
     StateFile(0, EmptyLedger),
     StateFile(0, [s \in {"alice"} |-> <<"0">>])}

InitScripts ==
    /\ enabled \in BOOLEAN
    /\ dry_run \in BOOLEAN
    /\ verbose_logging \in BOOLEAN
    /\ extend_settings = ManagerExtendSettings
    /\ power_off_settings = PowerOffSettings(TRUE, TRUE, {"alice"})
    /\ node \in {Node(TRUE, TRUE), Node(TRUE, FALSE)}
    /\ cron \in ScriptCronFiles
    /\ pc = "idle"
    /\ op = "init"
    /\ ret = None
    /\ raised = FALSE
    /\ runs = NoRuns
    /\ last = NoEffect
    /\ allowed_senders = <<"alice">>
    /\ \E text \in CreditTexts : allowed_credits = <<text>>
    /\ credits = EmptyLedger
    /\ state_file \in ScriptStateFiles
    /\ now = 0
    /\ shutdowntime = <<"0", "0", ":", "0", "0">>
    /\ fetched = 0

\* python3 /app/poweroff.py
PoweroffRun ==
    /\ pc = "idle"
    /\ \E online \in BOOLEAN :
          LET r == POWEROFF_run(enabled, dry_run, extend_settings, cron,
                                online)
          IN  /\ last' = r.eff
              /\ cron' = r.cron
              /\ raised' = r.raised
    /\ op' = "poweroff"
    /\ UNCHANGED <<Config, runs, ScriptState, pc, ret>>

\* python3 /app/poweron.py
PoweronRun ==
    /\ pc = "idle"
    /\ \E online \in BOOLEAN :
          last' = PowerOn_run(enabled, dry_run, node, online)
    /\ op' = "poweron"
    /\ raised' = FALSE
    /\ UNCHANGED <<Config, runs, ScriptState, cron, pc, ret>>

\* a mail script is constructed and run() starts: poweronbymail.py reads
\* its ledger, poweroffdelaybymail.py sets shutdowntime to "00:00"
BeginScript(name) ==
    /\ pc = "idle"
    /\ pc' = "scan"
    /\ op' = name
    /\ raised' = FALSE
    /\ fetched' = 0
    /\ last' = [NoEffect EXCEPT
                  !.logs = DryRunLog(dry_run, "Dry run.")]
    /\ credits' = IF name = "poweronbymail"
                  THEN init_credits(allowed_senders, allowed_credits,
                                    state_file)
                  ELSE credits
    /\ shutdowntime' = IF name = "poweroffdelaybymail"
                       THEN <<"0", "0", ":", "0", "0">>
                       ELSE shutdowntime
    /\ UNCHANGED <<Config, runs, cron, ret, state_file, now>>

BeginPowerOffByMail == BeginScript("poweroffbymail")

BeginPowerOffDelayByMail == BeginScript("poweroffdelaybymail")

BeginPowerOnByMail == BeginScript("poweronbymail")

\* the mailbox yields one more message
Fetch(name) ==
    /\ pc = "scan"
    /\ op = name
    /\ fetched < MaxMessages
    /\ fetched' = fetched + 1

PowerOffByMailMessage ==
    /\ Fetch("poweroffbymail")
    /\ \E m \in Messages, online \in BOOLEAN :
          LET r == poweroffbymail_message(
                       enabled, dry_run, verbose_logging, extend_settings,
                       allowed_senders, cron, m, online)
          IN  /\ last' = [r.eff EXCEPT !.msg = m]
              /\ cron' = r.cron
              /\ raised' = r.raised
              /\ pc' = IF r.raised THEN "idle" ELSE "scan"
    /\ UNCHANGED <<Config, runs, op, ret, credits, state_file, now, shutdowntime>>

PowerOffDelayByMailMessage ==
    /\ Fetch("poweroffdelaybymail")
    /\ \E m \in Messages, online \in BOOLEAN :
          LET r == poweroffdelaybymail_message(
                       enabled, dry_run, verbose_logging, extend_settings,
                       allowed_senders, cron, shutdowntime, m, online)
          IN  /\ last' = [r.eff EXCEPT !.msg = m]
              /\ cron' = r.cron
              /\ shutdowntime' = r.shutdowntime
              /\ raised' = r.raised
              /\ pc' = IF r.raised THEN "idle" ELSE "scan"
    /\ UNCHANGED <<Config, runs, op, ret, credits, state_file, now>>

PowerOnByMailMessage ==
    /\ Fetch("poweronbymail")
    /\ \E m \in Messages, online \in BOOLEAN :
          LET r == poweronbymail_message(
                       enabled, dry_run, verbose_logging, node,
                       allowed_senders, credits, m, online)
          IN  /\ last' = [r.eff EXCEPT !.msg = m]
              /\ credits' = r.credits
              /\ raised' = r.raised
              /\ pc' = IF r.raised THEN "idle" ELSE "scan"
    /\ UNCHANGED <<Config, runs, op, ret, cron, state_file, now, shutdowntime>>

\* the loop is over: expunge, close, logout; poweronbymail.py then saves
\* its ledger
EndScript ==
    /\ pc = "scan"
    /\ op \in ScriptNames
    /\ pc' = "idle"
    /\ state_file' = IF op = "poweronbymail" THEN StateFile(now, credits)
                     ELSE state_file
    /\ UNCHANGED <<Config, runs, cron, op, ret, raised, last, credits, now,
                   shutdowntime, fetched>>

NextScripts ==
    \/ PoweroffRun
    \/ PoweronRun
    \/ BeginPowerOffByMail
    \/ BeginPowerOffDelayByMail
    \/ BeginPowerOnByMail
    \/ PowerOffByMailMessage
    \/ PowerOffDelayByMailMessage
    \/ PowerOnByMailMessage
    \/ EndScript

SpecScripts == InitScripts /\ [][NextScripts]_vars

----------------------------------------------------------------------------
(* SpecCredits: the credit ledger of PowerManager: _load_credits,          *)
(* _save_credits and the passing of time.  The clock counts half days      *)
(* from a Monday 00:00.                                                    *)

\* the ticks of the clock in a day
TicksPerDay == 2

\* the last day the clock reaches
MaxDay == 8

\* PowerManager._first_day_of_week: today minus weekday() days, at 00:00
first_day_of_week(today) ==
    LET day == today \div TicksPerDay
        weekday == day % 7
    IN  (day - weekday) * TicksPerDay

\* credits.update(stored)
Update(ledger, stored) ==
    [s \in DOMAIN ledger \cup DOMAIN stored |->
       IF s \in DOMAIN stored THEN stored[s] ELSE ledger[s]]

\* _load_credits that also resets a file written at Monday 00:00
load_credits_exclusive(senders, texts, sf, today) ==
    LET defaults == Zip(senders, texts)
        first_day == first_day_of_week(today)
    IN  IF ~sf.exists THEN defaults
        ELSE IF sf.mtime <= first_day THEN defaults
        ELSE Update(defaults, sf.credits)

\* PowerManager._load_credits
load_credits(senders, texts, sf, today) ==
    LET defaults == Zip(senders, texts)
        first_day == first_day_of_week(today)
    IN  IF ~sf.exists THEN defaults
        ELSE IF sf.mtime < first_day THEN defaults
        ELSE Update(defaults, sf.credits)

\* PowerManager._save_credits: the new state file
save_credits(ledger, today) == StateFile(today, ledger)

LedgerKeys == {"alice", "mallory"}

StoredTexts == {<<"0">>, <<"1">>}

Ledgers ==
    {EmptyLedger}
    \cup [{"alice"} -> StoredTexts]
    \cup [{"mallory"} -> StoredTexts]
    \cup [LedgerKeys -> StoredTexts]

InitCredits ==
    /\ enabled = TRUE
    /\ dry_run = FALSE
    /\ verbose_logging = FALSE
    /\ extend_settings = ManagerExtendSettings
    /\ power_off_settings = NoPowerOffSettings
    /\ node = Node(TRUE, TRUE)
    /\ cron = NoFile
    /\ pc = "idle"
    /\ op = "init"
    /\ ret = None
    /\ raised = FALSE
    /\ runs = NoRuns
    /\ last = NoEffect
    /\ allowed_senders \in {<<>>, <<"alice">>, <<"alice", "mallory">>,
                            <<"alice", "alice">>}
    /\ allowed_credits \in {<<>>, <<<<"1">>>>, <<<<"1">>, <<"2">>>>}
    /\ credits = EmptyLedger
    /\ state_file \in {NoStateFile} \cup {StateFile(0, l) : l \in Ledgers}
    /\ now = 0
    /\ shutdowntime = <<"0", "0", ":", "0", "0">>
    /\ fetched = 0

LoadCredits ==
    /\ credits' = load_credits(allowed_senders, allowed_credits, state_file,
                               now)
    /\ op' = "_load_credits"
    /\ UNCHANGED <<Config, runs, cron, pc, ret, raised, last, state_file, now,
                   shutdowntime, fetched>>

SaveCredits ==
    /\ \E ledger \in Ledgers : state_file' = save_credits(ledger, now)
    /\ op' = "_save_credits"
    /\ UNCHANGED <<Config, runs, cron, pc, ret, raised, last, credits, now,
                   shutdowntime, fetched>>

\* half a day passes
Tick ==
    /\ now < MaxDay * TicksPerDay + 1
    /\ now' = now + 1
    /\ op' = "clock"
    /\ UNCHANGED <<Config, runs, cron, pc, ret, raised, last, credits, state_file,
                   shutdowntime, fetched>>

NextCredits == LoadCredits \/ SaveCredits \/ Tick

SpecCredits == InitCredits /\ [][NextCredits]_vars

----------------------------------------------------------------------------
(* SpecChangeCrontab: POD.changeCrontab of poweroffdelaybymail.py called on *)
(* any schedule file with any EXTENDTIME settings                           *)

ChangeCrontabCall ==
    \E online \in BOOLEAN :
        LET c == changeCrontab(dry_run, extend_settings, cron, shutdowntime,
                               online)
        IN  /\ cron' = c.cron
            /\ shutdowntime' = c.shutdowntime
            /\ raised' = c.raised
            /\ last' = c.eff
            /\ op' = "changeCrontab"
            /\ UNCHANGED <<Config, runs, pc, ret, credits, state_file, now, fetched>>

NextChangeCrontab == ChangeCrontabCall

SpecChangeCrontab == InitSchedule /\ [][NextChangeCrontab]_vars

----------------------------------------------------------------------------
(* SpecConcurrent: one process in _extend_cron_schedule and one in          *)
(* _update_cron_default_schedule on the same schedule file; each reads the  *)
(* whole file, changes the lines it holds and writes the whole file, and no *)
(* lock is taken between the read and the write                             *)

ConcurrentExtendSettings ==
    {ExtendSettings(dh, <<"5">>, mh, eh) :
        dh \in DefaultHourTexts, mh \in {<<"2", "2">>, <<"0">>},
        eh \in {<<"1">>, <<"2">>}}

InitConcurrent ==
    /\ enabled = TRUE
    /\ dry_run = FALSE
    /\ verbose_logging = FALSE
    /\ extend_settings \in ConcurrentExtendSettings
    /\ cron \in GoodCronFiles \cup BadCronFiles
    /\ power_off_settings = NoPowerOffSettings
    /\ node = Node(TRUE, TRUE)
    /\ pc = "idle"
    /\ op = "init"
    /\ ret = None
    /\ raised = FALSE
    /\ last = NoEffect
    /\ NoScriptState
    /\ runs = [start |-> cron, extend |-> Run("start", NoFile),
               reset |-> Run("start", NoFile)]

\* handle.read().splitlines() of _extend_cron_schedule; a missing file ends
\* the call
ExtendRead ==
    /\ runs.extend.pc = "start"
    /\ runs' = [runs EXCEPT
                  !.extend = IF cron.exists THEN Run("read", cron)
                             ELSE Run("done", NoFile)]
    /\ UNCHANGED <<Config, ScriptState, cron, pc, op, ret, raised, last>>

\* the rest of _extend_cron_schedule, on the lines that were read
ExtendWrite ==
    /\ runs.extend.pc = "read"
    /\ LET o == extend_cron_schedule(runs.extend.read, extend_settings,
                                     extend_hours_of(extend_settings))
       IN  /\ cron' = IF o.wrote THEN o.file ELSE cron
           /\ ret' = o.ret
           /\ raised' = o.raised
    /\ op' = "extend"
    /\ runs' = [runs EXCEPT !.extend.pc = "done"]
    /\ UNCHANGED <<Config, ScriptState, pc, last>>

\* handle.read().splitlines() of _update_cron_default_schedule
ResetRead ==
    /\ runs.reset.pc = "start"
    /\ runs' = [runs EXCEPT
                  !.reset = IF cron.exists THEN Run("read", cron)
                            ELSE Run("done", NoFile)]
    /\ UNCHANGED <<Config, ScriptState, cron, pc, op, ret, raised, last>>

\* the rest of _update_cron_default_schedule, on the lines that were read
ResetWrite ==
    /\ runs.reset.pc = "read"
    /\ LET o == update_cron_default_schedule(runs.reset.read,
                                             extend_settings)
       IN  /\ cron' = IF o.wrote THEN o.file ELSE cron
           /\ ret' = o.ret
           /\ raised' = o.raised
    /\ op' = "reset"
    /\ runs' = [runs EXCEPT !.reset.pc = "done"]
    /\ UNCHANGED <<Config, ScriptState, pc, last>>

NextConcurrent == ExtendRead \/ ExtendWrite \/ ResetRead \/ ResetWrite

SpecConcurrent == InitConcurrent /\ [][NextConcurrent]_vars

----------------------------------------------------------------------------
(* C1 *)

\* the hour part of a returned "HH:MM"
RetHour(r) == SubSeq(r, 1, (CHOOSE i \in 1..Len(r) : r[i] = ":") - 1)

\* the schedule line is there and its first hour is a number in 0..23
C1_Pre ==
    /\ extend_settings.present
    /\ cron.exists
    /\ LET index == FirstPoweroffLine(cron.lines)
       IN  /\ index # 0
           /\ LET parts == SplitWs(cron.lines[index])
              IN  /\ Len(parts) >= 2
                  /\ LET first == SplitComma(parts[2])[1]
                     IN  IsIntText(first) /\ ParseInt(first) \in 0..23
    /\ extend_settings.max_hour \in MaxHourTexts

C1_Post(e) ==
    \A h0 \in {ParseInt(FirstHourText(cron))} :
    \A M \in {ParseInt(extend_settings.max_hour)} :
    \A field \in {HourField(cron')} :
    \A written \in {SplitComma(field)} :
    \A retHour \in {ParseInt(RetHour(ret'))} :
    \A newHour \in {(h0 + e) % 24} :
    \A ceiling \in {IF M = 0 THEN 24 ELSE M} :
        /\ ~raised'
        /\ ret' # None
        /\ IF newHour >= ceiling
           THEN /\ field = extend_settings.max_hour
                /\ retHour = M
           ELSE /\ Len(written) = 2
                /\ ParseInt(written[1]) = newHour
                /\ written[2] = extend_settings.max_hour
                /\ retHour = newHour

\* C1: for every first hour h0 in 0..23, every extend_hours >= 0 and every
\* max_hour in 0..24, _extend_cron_schedule computes
\* newHour = (h0 + extend_hours) mod 24 and, with ceiling 24 for max_hour 0
\* or "00" and max_hour otherwise, writes max_hour alone and returns it when
\* newHour >= ceiling, and otherwise writes newHour,max_hour and returns
\* newHour.
C1_ExtendRule ==
    [][(op' = "extend" /\ C1_Pre)
          => C1_Post(extend_hours_of(extend_settings))]_vars

\* an extension with max_hour "0" that was not clamped
C1_Witness ==
    /\ op = "extend"
    /\ ret # None
    /\ extend_settings.max_hour = <<"0">>
    /\ HasScheduleLine(cron)
    /\ Len(SplitComma(HourField(cron))) = 2

----------------------------------------------------------------------------
(* C2 *)

\* the last operation or message sent no magic packet, ran no remote
\* command and did not write the schedule file
NoAction(e) == e.wol = 0 /\ e.remote = 0 /\ e.wrote = 0

\* C2: while the engine is disabled no PowerManager operation sends a magic
\* packet, runs a remote command or rewrites the schedule file.
C2_DisabledNoAction == ~enabled => NoAction(last)

----------------------------------------------------------------------------
(* C3 *)

\* C3: in dry-run mode no PowerManager operation sends a magic packet, runs
\* a remote command or rewrites the schedule file.
C3_DryRunNoAction == dry_run => NoAction(last)

----------------------------------------------------------------------------
(* C5 *)

\* the allowed senders of the mail operation that is running
AllowedSendersOf(name) ==
    CASE name = "power_off_from_mail" -> power_off_settings.allowed_senders
      [] name = "power_on_from_mail" -> power_on_settings.allowed_senders
      [] name = "extend_shutdown_from_mail" -> extend_settings.allowed_senders
      [] OTHER -> {}

MailOperations ==
    {"power_off_from_mail", "power_on_from_mail", "extend_shutdown_from_mail"}

\* C5: a message whose sender is not a member of the allowed senders causes
\* no reachability probe, remote command, magic packet, schedule rewrite or
\* reply e-mail, whatever the allowed-senders list is (empty and absent
\* included).
C5_StrangerNoEffect ==
    (/\ op \in MailOperations
     /\ last.msg # NoMessage
     /\ last.msg.sender \notin AllowedSendersOf(op))
    => (/\ NoAction(last)
        /\ last.probes = 0
        /\ last.replies = <<>>)

----------------------------------------------------------------------------
(* C6 *)

\* the schedule line holds the default schedule
AtDefaultSchedule(file, es) ==
    /\ HourField(file) = es.default_hour \o <<",">> \o es.max_hour
    /\ MinuteField(file) = es.default_minutes

\* C6: whenever power_off or _handle_power_off_request has dispatched the
\* remote shutdown command, the poweroff.py line of the schedule file has
\* the hour field default_hour,max_hour and the minute field
\* default_minutes afterwards.
C6_ResetAfterShutdown ==
    (/\ op \in {"power_off", "power_off_from_mail"}
     /\ last.remote > 0
     /\ HasScheduleLine(cron))
    => AtDefaultSchedule(cron, extend_settings)

\* a shutdown by mail was dispatched and the schedule line is there
C6_Witness ==
    /\ op = "power_off_from_mail"
    /\ last.remote = 1
    /\ HasScheduleLine(cron)
    /\ cron.lines[1] = OtherJobLine

----------------------------------------------------------------------------
(* C4 *)

OffScripts == {"poweroff", "poweroffbymail", "poweroffdelaybymail"}

\* C4: in dry-run mode POWEROFF.run, POBE.run of poweroffbymail.py and
\* POD.changeCrontab never rewrite the schedule file and never run the
\* remote shutdown command, whether the node is reachable or not.
C4_DryRunScriptsNoAction ==
    (dry_run /\ op \in OffScripts) => (last.wrote = 0 /\ last.remote = 0)

----------------------------------------------------------------------------
(* C7 *)

\* a step of the loop of poweronbymail.py that handles a message with the
\* keyword from an allowed sender
PowerOnRequest(sender) ==
    /\ op = "poweronbymail"
    /\ pc = "scan"
    /\ fetched' = fetched + 1
    /\ last'.msg.sender = sender
    /\ Lower(last'.msg.subject) = Lower(poweron_keyword)
    /\ InAllowed(sender, allowed_senders)

\* the sender's credit in the ledger is the number n
HasCredit(ledger, sender, n) ==
    /\ sender \in DOMAIN ledger
    /\ IsSignedIntText(ledger[sender])
    /\ ParseSigned(ledger[sender]) = n

\* C7: in POBE.run of poweronbymail.py a message from an authorized sender
\* whose remaining credit is 0 causes no magic packet, and the sender
\* receives the reply with the credits-exhausted body.
C7_ZeroCreditRefused ==
    [][\A sender \in Senders :
          (/\ PowerOnRequest(sender)
           /\ enabled
           /\ node.mac_valid
           /\ HasCredit(credits, sender, 0))
          => /\ last'.wol = 0
             /\ last'.replies = <<Reply(sender, "credits exhausted")>>]_vars

----------------------------------------------------------------------------
(* C8 *)

AliceOn == [subject |-> "PowerOn", sender |-> "alice"]

\* C8: with the ledger {alice: 1}, enabled and not dry-run, and two
\* successive keyword messages from alice in one run of poweronbymail.py,
\* the first dispatches a magic packet and leaves the credit at 0, and the
\* second dispatches none and gets the refusal body.
C8_SecondRequestRefused ==
    [][(/\ PowerOnRequest("alice")
        /\ enabled
        /\ ~dry_run
        /\ node.mac_valid
        /\ init_credits(allowed_senders, allowed_credits, state_file)
             = [s \in {"alice"} |-> <<"1">>]
        /\ fetched = 1
        /\ last.msg = AliceOn
        /\ last'.msg = AliceOn)
       => /\ last.wol = 1
          /\ HasCredit(credits, "alice", 0)
          /\ last'.wol = 0
          /\ last'.replies = <<Reply("alice", "credits exhausted")>>]_vars

----------------------------------------------------------------------------
(* C9 *)

\* a step of the loop of poweronbymail.py
PowerOnStep ==
    /\ op = "poweronbymail"
    /\ pc = "scan"
    /\ fetched' = fetched + 1

\* C9: in POBE.run of poweronbymail.py a positive credit is decremented by
\* exactly one for a message exactly when a magic packet was dispatched
\* for that message, never in dry-run and never when disabled, and a
\* negative credit is never changed.
C9_DecrementIffDispatched ==
    [][PowerOnStep =>
         \A sender \in DOMAIN credits :
            IF IsSignedIntText(credits[sender])
            THEN \A credit \in {ParseSigned(credits[sender])} :
                   \A packet \in {last'.wol = 1 /\ last'.msg.sender = sender} :
                     /\ credit > 0 /\ packet
                          => HasCredit(credits', sender, credit - 1)
                     /\ credit > 0 /\ ~packet
                          => credits'[sender] = credits[sender]
                     /\ credit < 0 => credits'[sender] = credits[sender]
                     /\ (dry_run \/ ~enabled) => credits' = credits
            ELSE TRUE]_vars

----------------------------------------------------------------------------
(* C10 *)

\* Monday 00:00 of the week that holds the instant today
MondayMidnight(today) ==
    CHOOSE t \in 0..today :
        /\ t % (7 * TicksPerDay) = 0
        /\ today - t < 7 * TicksPerDay

\* C10: _load_credits returns the configured defaults overridden per key
\* by the persisted values when the state file exists and was modified at
\* or after Monday 00:00 of the current week, and exactly the configured
\* defaults when the file is absent or was modified before that instant.
C10_LoadCredits ==
    op = "_load_credits" =>
      \A defaults \in {Zip(allowed_senders, allowed_credits)} :
         IF state_file.exists /\ state_file.mtime >= MondayMidnight(now)
         THEN /\ DOMAIN credits
                   = DOMAIN defaults \cup DOMAIN state_file.credits
              /\ \A s \in DOMAIN credits :
                    credits[s] = IF s \in DOMAIN state_file.credits
                                 THEN state_file.credits[s]
                                 ELSE defaults[s]
         ELSE credits = defaults

\* a load in the second week that a persisted value of this week overrides
C10_Witness ==
    /\ op = "_load_credits"
    /\ state_file.exists
    /\ now > 7 * TicksPerDay
    /\ state_file.mtime >= MondayMidnight(now)
    /\ \E s \in DOMAIN state_file.credits :
          /\ InAllowed(s, allowed_senders)
          /\ s \in DOMAIN Zip(allowed_senders, allowed_credits)
          /\ Zip(allowed_senders, allowed_credits)[s] # state_file.credits[s]
          /\ credits[s] = state_file.credits[s]

----------------------------------------------------------------------------
(* C11 *)

\* self.keyword of the mail script
ScriptKeyword(name) ==
    CASE name = "poweroffbymail" -> poweroff_keyword
      [] name = "poweroffdelaybymail" -> extend_keyword
      [] name = "poweronbymail" -> poweron_keyword
      [] OTHER -> ""

\* C11: in the runs of poweronbymail.py, poweroffbymail.py and
\* poweroffdelaybymail.py a message is marked for deletion only if its
\* subject equals the keyword, its sender is an allowed sender and the
\* service is enabled.
C11_DeleteOnlyServed ==
    (op \in ScriptNames /\ last.deleted)
    => /\ Lower(last.msg.subject) = Lower(ScriptKeyword(op))
       /\ InAllowed(last.msg.sender, allowed_senders)
       /\ enabled

----------------------------------------------------------------------------
(* C12 *)

\* C12: in a mail-triggered run of PowerManager a message whose action was
\* performed (the remote command was run or the schedule was rewritten)
\* is marked for deletion.
C12_ServedIsDeleted ==
    (/\ op \in MailOperations
     /\ last.msg \in Messages
     /\ (last.remote > 0 \/ last.wrote > 0))
    => last.deleted

----------------------------------------------------------------------------
(* C13 *)

\* C13: a message whose From header yields no address does not raise out
\* of the message processing of a mail script and is not marked for
\* deletion, whatever its subject is.
C13_NoSenderIsSkipped ==
    (/\ op \in ScriptNames
     /\ last.msg \in Messages
     /\ last.msg.sender = NoSender)
    => (~raised /\ ~last.deleted)

----------------------------------------------------------------------------
(* C14 *)

\* C14: a data error while one message is handled never ends the scan of
\* a mail-triggered run: the scan ends only when the mailbox yields no
\* further message, never with an exception.
C14_ScanEndsOnlyAtLastMessage ==
    [][(pc = "scan" /\ op \in MailOperations /\ pc' = "idle")
          => ~raised']_vars

----------------------------------------------------------------------------
(* C15 *)

\* C15: no power-on path sends a magic packet to the primary node while
\* the probe found the primary node's port reachable, for every setting
\* of enabled, dry_run and the credits.
C15_NoPacketWhenReachable ==
    (op \in {"poweron", "poweronbymail"} /\ last.wol > 0) => ~last.online

----------------------------------------------------------------------------
(* C16 *)

\* C16: when the hardware address is rejected as malformed,
\* PowerManager.power_on and power_on_extra_nodes emit no "WOL command
\* sent" log line or push notification for that target and the invocation
\* ends normally, without a process exit.
C16_BadAddressEndsNormally ==
    (/\ op \in {"power_on", "power_on_extra_nodes"}
     /\ last.probes = 1
     /\ enabled
     /\ ~dry_run)
    => /\ ~last.exit
       /\ (op = "power_on" /\ ~node.mac_valid) => last.pushes = 0
       /\ op = "power_on_extra_nodes"
            => \A k \in last.woken : extra_nodes[k].mac_valid

----------------------------------------------------------------------------
(* C17 *)

\* C17: power_on_extra_nodes sends a magic packet to an extra node only in
\* a run whose probe of the primary node succeeded, and
\* power_off_extra_nodes runs a remote shutdown on an extra node only in a
\* run whose probe of the primary node failed.
C17_ExtraNodesFollowPrimary ==
    /\ (op = "power_on_extra_nodes" /\ (last.wol > 0 \/ last.woken # {}))
          => (last.probes = 1 /\ last.online)
    /\ (op = "power_off_extra_nodes" /\ (last.remote > 0 \/ last.shut # {}))
          => (last.probes = 1 /\ ~last.online)

\* extra nodes were woken after the primary node was found reachable
C17_Witness ==
    /\ op = "power_on_extra_nodes"
    /\ last.online
    /\ last.woken # {}
    /\ last.wol = Cardinality(last.woken)

----------------------------------------------------------------------------
(* C18 *)

\* the run has reached the loop over the extra nodes
InNodeLoop == enabled /\ ~dry_run /\ last.probes = 1

\* C18: for each extra node independently, power_on_extra_nodes sends a
\* magic packet only if that node's ping failed, and power_off_extra_nodes
\* runs the remote shutdown only if that node's ping succeeded and the
\* node has its credentials; a skipped node does not prevent a later node
\* from being acted on.
C18_EachNodeOnItsOwn ==
    /\ op = "power_on_extra_nodes" =>
         /\ \A k \in last.woken : ~last.ping[k]
         /\ (InNodeLoop /\ last.online) =>
               \A k \in 1..Len(extra_nodes) :
                  (~last.ping[k] /\ extra_nodes[k].mac_valid)
                     => k \in last.woken
    /\ op = "power_off_extra_nodes" =>
         /\ \A k \in last.shut : last.ping[k] /\ extra_nodes[k].creds
         /\ (InNodeLoop /\ ~last.online) =>
               \A k \in 1..Len(extra_nodes) :
                  (last.ping[k] /\ extra_nodes[k].creds) => k \in last.shut

\* a node without credentials was skipped and a later node was shut down
C18_Witness ==
    /\ op = "power_off_extra_nodes"
    /\ \E j, k \in 1..Len(extra_nodes) :
          /\ j < k
          /\ last.ping[j]
          /\ ~extra_nodes[j].creds
          /\ j \notin last.shut
          /\ k \in last.shut

----------------------------------------------------------------------------
(* C19 *)

\* the log line is among the lines written
Logged(lines, line) == \E k \in 1..Len(lines) : lines[k] = line

\* C19: in PowerManager.power_off, once the remote command has returned,
\* the "SLEEP command" log entry, the push notification and the schedule
\* reset follow, whatever the exit code and the output of the command
\* were.
C19_AfterRemoteCommand ==
    (op = "power_off" /\ last.remote = 1)
    => /\ Logged(last.logs, "PowerOff - Sending SLEEP command by cron")
       /\ last.pushes = 1
       /\ HasScheduleLine(cron) =>
             (last.wrote = 1 /\ AtDefaultSchedule(cron, extend_settings))

\* the remote command failed with exit code 255 and the run still logged,
\* pushed and reset the schedule
C19_Witness ==
    /\ op = "power_off"
    /\ last.remote = 1
    /\ last.result.returncode = 255
    /\ last.pushes = 1
    /\ HasScheduleLine(cron)
    /\ AtDefaultSchedule(cron, extend_settings)

----------------------------------------------------------------------------
(* C20 *)

\* the schedule file has no line for poweroff.py, or the first hour of
\* that line is not an integer
NoUsableScheduleLine(file) ==
    /\ file.exists
    /\ \/ FirstPoweroffLine(file.lines) = 0
       \/ HasScheduleLine(file) /\ ~IsIntText(FirstHourText(file))

\* C20: when the schedule file has no line for poweroff.py, or the hour
\* field of that line cannot be parsed, the extension requested by mail
\* raises nothing, leaves the content of the schedule file unchanged and
\* sends the sender the extension-failure reply.
C20_ExtendFailureIsReported ==
    [][\A sender \in Senders :
          (/\ pc = "scan"
           /\ op = "extend_shutdown_from_mail"
           /\ (pc' = "scan" \/ raised')
           /\ last'.msg.sender = sender
           /\ sender \in extend_settings.allowed_senders
           /\ Lower(last'.msg.subject) = Lower(extend_settings.keyword)
           /\ NoUsableScheduleLine(cron))
          => /\ ~raised'
             /\ cron' = cron
             /\ last'.replies
                  = <<Reply(sender, "could not change the shutdown")>>]_vars

----------------------------------------------------------------------------
(* C21 *)

\* the last message of the run has the keyword of the power-on settings
\* and an allowed sender
PowerOnMailAccepted ==
    /\ op = "power_on_from_mail"
    /\ last.msg \in Messages
    /\ Lower(last.msg.subject) = Lower(power_on_settings.keyword)
    /\ last.msg.sender \in power_on_settings.allowed_senders

\* C21: with the service enabled and not in dry-run, an authorized
\* power-on message handled by power_on_from_mail probes the primary node
\* and, when it is unreachable, sends a magic packet and the "is being
\* switched on" reply, as power_on sends the packet.
C21_PowerOnByMailActs ==
    (PowerOnMailAccepted /\ enabled /\ ~dry_run /\ node.mac_valid)
    => /\ last.probes = 1
       /\ ~last.online =>
            /\ last.wol = 1
            /\ last.replies
                 = <<Reply(last.msg.sender, "is being switched on")>>

----------------------------------------------------------------------------
(* C22 *)

\* C22: for every power-off message that _handle_power_off_request
\* handles with the service enabled, exactly one reply is sent to the
\* sender; its body is "is being shut down" if and only if the remote
\* command was dispatched, and "already off" if and only if the primary
\* node was unreachable.
C22_ReplyMatchesOutcome ==
    (/\ op = "power_off_from_mail"
     /\ last.msg \in Messages
     /\ last.probes = 1
     /\ enabled
     /\ ~raised)
    => /\ Len(last.replies) = 1
       /\ last.replies[1].to = last.msg.sender
       /\ last.replies[1].body = "is being shut down" <=> last.remote = 1
       /\ last.replies[1].body = "already off" <=> ~last.online

----------------------------------------------------------------------------
(* C23 *)

\* C23: in the mail scripts a push notification is sent only for a message
\* whose action was dispatched: none in dry-run, and none when no magic
\* packet, remote command or schedule change was performed; a dispatched
\* action is notified exactly once.
C23_PushOnlyWhenDispatched ==
    (op \in ScriptNames /\ last.msg \in Messages /\ ~raised)
    => /\ last.pushes > 0
            => (~dry_run /\ (last.wol > 0 \/ last.remote > 0 \/ last.wrote > 0))
       /\ (last.wol > 0 \/ last.remote > 0) => last.pushes = 1

----------------------------------------------------------------------------
(* C24 *)

\* C24: POD.changeCrontab computes newHour = (h0 + extend hours) mod 24 and,
\* with ceiling 24 for max hour 0 or "00" and max hour otherwise, writes max
\* hour alone when newHour >= ceiling and the pair newHour,max_hour
\* otherwise; with max hour 0 no newHour in 0..23 is clamped.
C24_ChangeCrontabRule ==
    [][(/\ op' = "changeCrontab"
        /\ last'.online
        /\ HasScheduleLine(cron)
        /\ IsIntText(FirstHourText(cron))
        /\ ParseInt(FirstHourText(cron)) \in 0..23
        /\ IsIntText(extend_settings.extend_hours)
        /\ extend_settings.max_hour \in MaxHourTexts)
       => \A newHour \in {(ParseInt(FirstHourText(cron))
                            + ParseInt(extend_settings.extend_hours)) % 24} :
          \A written \in {SplitComma(HourField(cron'))} :
             /\ ~raised'
             /\ IF newHour >= max_hour_value(extend_settings.max_hour)
                THEN HourField(cron') = extend_settings.max_hour
                ELSE /\ Len(written) = 2
                     /\ ParseInt(written[1]) = newHour
                     /\ written[2] = extend_settings.max_hour]_vars

----------------------------------------------------------------------------
(* C25 *)

\* the unmodified default schedule: the schedule line of the file with
\* minute = default_minutes and hour field = default_hour,max_hour
DefaultSchedule(file, es) ==
    LET index == FirstPoweroffLine(file.lines)
        parts == SplitWs(file.lines[index])
        line == [k \in 1..Len(parts) |->
                   IF k = 1 THEN es.default_minutes
                   ELSE IF k = 2
                   THEN es.default_hour \o <<",">> \o es.max_hour
                   ELSE parts[k]]
    IN  [file EXCEPT !.lines[index] = Join(<<" ">>, line)]

\* C25: on every schedule file, _update_cron_default_schedule followed by
\* _extend_cron_schedule(0) returns the shutdown time that
\* _extend_cron_schedule(0) returns on the unmodified default schedule, and
\* a second _update_cron_default_schedule leaves the file of the first.
C25_ResetThenExtendZero ==
    (extend_settings.present /\ HasScheduleLine(cron))
    => \A once \in {update_cron_default_schedule(cron, extend_settings)} :
       \A twice \in {update_cron_default_schedule(once.file,
                                                  extend_settings)} :
       \A after \in {extend_cron_schedule(once.file, extend_settings, 0)} :
       \A plain \in {extend_cron_schedule(
                        DefaultSchedule(cron, extend_settings),
                        extend_settings, 0)} :
          /\ ~once.raised /\ ~twice.raised
          /\ twice.file = once.file
          /\ after.ret = plain.ret
          /\ after.raised = plain.raised

\* a reset of a schedule line with another minute, followed by an extension
\* by 0 hours that returned the default shutdown time
C25_Witness ==
    /\ op = "extend"
    /\ ~raised
    /\ extend_settings.extend_hours = <<"0">>
    /\ extend_settings.max_hour = <<"2", "3">>
    /\ ret = Zfill2(extend_settings.default_hour) \o <<":">>
               \o Zfill2(extend_settings.default_minutes)
    /\ MinuteField(cron) = extend_settings.default_minutes

----------------------------------------------------------------------------
(* C26 *)

\* the first hour of the schedule line is a number in 0..23
FirstHourInRange(file) ==
    /\ HasScheduleLine(file)
    /\ IsIntText(FirstHourText(file))
    /\ ParseInt(FirstHourText(file)) \in 0..23

\* C26: from a schedule line whose first hour is in 0..23, with
\* default_hour in 0..23 and max_hour in 0..24, every call of
\* _extend_cron_schedule or _update_cron_default_schedule leaves an hour
\* field that consists of one or two comma-joined values and whose first
\* value is in 0..23, so this holds after any sequence of calls.
C26_HourFieldInRange ==
    [][(/\ op' \in {"extend", "reset"}
        /\ extend_settings.present
        /\ FirstHourInRange(cron))
       => /\ ~raised'
          /\ FirstHourInRange(cron')
          /\ Len(SplitComma(HourField(cron'))) \in {1, 2}]_vars

\* a schedule line that extensions and a reset have rewritten
C26_Witness ==
    /\ op = "extend"
    /\ ~raised
    /\ ret # None
    /\ MinuteField(cron) = extend_settings.default_minutes
    /\ Len(SplitComma(HourField(cron))) = 2
    /\ ParseInt(FirstHourText(cron)) = 23

----------------------------------------------------------------------------
(* C27 *)

\* the file after _extend_cron_schedule and then
\* _update_cron_default_schedule, each run alone
ExtendThenReset(file, es) ==
    update_cron_default_schedule(
        extend_cron_schedule(file, es, extend_hours_of(es)).file, es).file

\* the file after _update_cron_default_schedule and then
\* _extend_cron_schedule, each run alone
ResetThenExtend(file, es) ==
    extend_cron_schedule(
        update_cron_default_schedule(file, es).file, es,
        extend_hours_of(es)).file

\* C27: when a run of _extend_cron_schedule and a run of
\* _update_cron_default_schedule have interleaved their reads and writes
\* and both have ended, the schedule file is the one that the two
\* operations leave in one of the two serial orders.
C27_Serializable ==
    (runs.extend.pc = "done" /\ runs.reset.pc = "done" /\ op # "init")
    => cron \in {ExtendThenReset(runs.start, extend_settings),
                 ResetThenExtend(runs.start, extend_settings)}

----------------------------------------------------------------------------
(* C28 *)

\* C28: for every setting of enabled and dry_run and every result of the
\* probe, PowerManager.power_off causes what POWEROFF.run of poweroff.py
\* causes on the same schedule file: the same remote shutdown command, the
\* same log lines and push notification, and the same schedule lines
\* afterwards.
C28_SameAsScript ==
    [][(/\ op' = "power_off"
        /\ power_off_settings.present
        /\ node.creds
        /\ extend_settings.present)
       => \A script \in {POWEROFF_run(enabled, dry_run, extend_settings,
                                      cron, last'.online)} :
             /\ last'.remote = script.eff.remote
             /\ last'.logs = script.eff.logs
             /\ last'.pushes = script.eff.pushes
             /\ last'.wrote = script.eff.wrote
             /\ raised' = script.raised
             /\ cron'.exists = script.cron.exists
             /\ cron'.exists => cron'.lines = script.cron.lines]_vars

----------------------------------------------------------------------------
(* C29 *)

\* C29: once _extend_cron_schedule has clamped the hour field to max_hour
\* (max_hour in 1..23), a further call with a positive extend_hours leaves
\* the hour field equal to max_hour: no extension wraps around midnight to
\* an hour before the ceiling.
C29_ClampedStaysClamped ==
    [][(/\ op = "extend" /\ ~raised /\ ret # None
        /\ op' = "extend"
        /\ HasScheduleLine(cron)
        /\ HourField(cron) = extend_settings.max_hour
        /\ IsIntText(extend_settings.max_hour)
        /\ ParseInt(extend_settings.max_hour) \in 1..23
        /\ extend_hours_of(extend_settings) > 0)
       => /\ ~raised'
          /\ HourField(cron') = extend_settings.max_hour]_vars

----------------------------------------------------------------------------
(* C30 *)

\* line k is the first line of the file that holds "poweroff.py"
IsMatchedLine(file, k) ==
    /\ \E t \in 1..Len(file.lines[k]) : file.lines[k][t] = "poweroff.py"
    /\ \A j \in 1..(k - 1) :
          \A t \in 1..Len(file.lines[j]) : file.lines[j][t] # "poweroff.py"

\* C30: _extend_cron_schedule and _update_cron_default_schedule leave the
\* number and the order of the lines, change no line but the first one that
\* holds "poweroff.py", leave every token of that line after the hour field
\* as it was, and _extend_cron_schedule leaves its minute field as well.
C30_Frame ==
    [][(op' \in {"extend", "reset"} /\ cron.exists)
       => /\ cron'.exists
          /\ Len(cron'.lines) = Len(cron.lines)
          /\ \A k \in 1..Len(cron.lines) :
                \/ cron'.lines[k] = cron.lines[k]
                \/ /\ IsMatchedLine(cron, k)
                   /\ \A old \in {SplitWs(cron.lines[k])} :
                      \A new \in {SplitWs(cron'.lines[k])} :
                         /\ Len(new) = Len(old)
                         /\ \A t \in 3..Len(old) : new[t] = old[t]
                         /\ op' = "extend" => new[1] = old[1]]_vars

\* the first of two "poweroff.py" lines was rewritten by an extension after
\* a reset, the other job and the second "poweroff.py" line are as they were
C30_Witness ==
    /\ op = "extend"
    /\ ~raised
    /\ ret # None
    /\ Len(cron.lines) = 3
    /\ cron.lines[1] # TwoScheduleLinesFile.lines[1]
    /\ MinuteField(cron) = extend_settings.default_minutes
    /\ cron.lines[2] = OtherJobLine
    /\ cron.lines[3] = TwoScheduleLinesFile.lines[3]

====
